---- MODULE Spec2Model ----
(***************************************************************************)
(* add_icon_padding.py: add_padding(input_path, output_path,               *)
(* padding_percent) and the __main__ block that calls it inside            *)
(* try/except.  One run is modelled statement by statement (Spec); the     *)
(* size arithmetic of lines 24-38 is also run on larger dimensions and on  *)
(* its own result (SizeSpec).                                              *)
(***************************************************************************)
EXTENDS Integers, Sequences, FiniteSets

VARIABLES
    pc,               \* the statement the run is at
    fs,               \* the file system: path -> file
    fs0,              \* the file system when the run started
    env,              \* the process environment: stdout encoding, save fault
    padding_percent,  \* the argument of add_padding
    img,              \* line 17/21
    old_width, old_height,          \* line 24
    padding_x, padding_y,           \* lines 27-28
    new_width, new_height,          \* lines 30-31
    new_img,                        \* line 34, pasted into at line 43
    content_width, content_height,  \* lines 37-38
    img_resized,                    \* line 40
    exc,              \* the exception raised inside the try block, if any
    stdout, stderr,   \* the lines printed so far
    status,           \* the exit status once pc = "exit"
    io_log,           \* the file operations performed, in order
    runs,             \* SizeSpec: how many times the size arithmetic was applied
    first_pad         \* SizeSpec: <<padding_x, padding_y>> of the first application

locals == <<img, old_width, old_height, padding_x, padding_y, new_width,
            new_height, new_img, content_width, content_height, img_resized>>
vars == <<pc, fs, fs0, env, padding_percent, locals, exc, stdout, stderr,
          status, io_log, runs, first_pad>>

(* ------------------------------ bounds -------------------------------- *)
MaxWidth == 5
MaxHeight == 2
MaxDim == 12
MaxPercent == 30

(* ----------------------------- constants ------------------------------ *)
input_file == "assets/icon/gitvault.png"
output_file == "assets/icon/gitvault_padded.png"
DefaultPercent == 15
MainPercent == 20

Paths == {input_file, output_file}
Percents == {0, DefaultPercent, MainPercent, 50}

\* Sample RGBA pixels: opaque, half transparent, transparent black,
\* transparent with a colour left in it.
Pixels == { <<200, 100, 50, 255>>, <<255, 255, 255, 128>>,
            <<0, 0, 0, 0>>, <<10, 20, 30, 0>> }

Coords(w, h) == (0 .. (w - 1)) \X (0 .. (h - 1))

\* Pixel buffers of the input images: a two-colour checkerboard.
Checker(w, h, a, b) ==
    [c \in Coords(w, h) |-> IF (c[1] + c[2]) % 2 = 0 THEN a ELSE b]

NoImage == [mode |-> "none", w |-> 0, h |-> 0, px |-> <<>>, loaded |-> FALSE]
NoExc == [at |-> "none", msg |-> "none"]

File(kind, mode, w, h, px) ==
    [kind |-> kind, mode |-> mode, w |-> w, h |-> h, px |-> px]

Absent == File("missing", "none", 0, 0, <<>>)
Corrupt == File("corrupt", "none", 0, 0, <<>>)
\* Some other content already at the output path.
Old == File("old", "none", 0, 0, <<>>)
\* What a failed write leaves of a file it had opened.
Partial == File("partial", "none", 0, 0, <<>>)

\* An RGB file holds three channels per pixel.
Rgb(p) == <<p[1], p[2], p[3]>>

PngFiles ==
    { File("png", "RGBA", w, h, Checker(w, h, a, b)) :
        w \in 1 .. MaxWidth, h \in 1 .. MaxHeight, a \in Pixels, b \in Pixels }
    \cup
    { File("png", "RGB", w, h, Checker(w, h, Rgb(a), Rgb(b))) :
        w \in 1 .. MaxWidth, h \in 1 .. MaxHeight, a \in Pixels, b \in Pixels }

\* A file whose header reads but whose pixel data does not.
TruncatedFiles ==
    { File("truncated", m, w, h, <<>>) :
        m \in {"RGBA", "RGB"}, w \in 1 .. MaxWidth, h \in 1 .. MaxHeight }

InputFiles == {Absent, Corrupt} \cup TruncatedFiles \cup PngFiles

(* ------------------------- the pure operations ------------------------ *)

\* A variant of Padding that rounds the quotient up.
PaddingRoundsUp(old, percent) == (old * percent + 99) \div 100

\* int(old * padding_percent / 100): true division, then truncation; for
\* the non-negative integers used here that is the floor of the quotient.
Padding(old, percent) == (old * percent) \div 100

\* A variant of NewDim that adds the padding on one side only.
NewDimOneSide(old, padding) == old + padding

\* A variant of NewDim with the sign of the padding reversed.
NewDimShrinks(old, padding) == old - (2 * padding)

\* old + (2 * padding)
NewDim(old, padding) == old + (2 * padding)

\* new - (2 * padding)
ContentDim(new, padding) == new - (2 * padding)

\* Image.open: reads the header only; the pixel data is loaded on first use.
Opened(f) == [mode |-> f.mode, w |-> f.w, h |-> f.h, px |-> <<>>, loaded |-> FALSE]

\* Image.load on the image opened from file f.
Loaded(im, f) == [im EXCEPT !.px = f.px, !.loaded = TRUE]

\* img.convert('RGBA') of a loaded RGB image: alpha becomes 255.
ConvertRGBA(im) ==
    [im EXCEPT !.mode = "RGBA",
               !.px = [c \in Coords(im.w, im.h) |->
                          <<im.px[c][1], im.px[c][2], im.px[c][3], 255>>]]

\* Image.new('RGBA', (w, h), color)
NewImage(w, h, color) ==
    [mode |-> "RGBA", w |-> w, h |-> h,
     px |-> [c \in Coords(w, h) |-> color], loaded |-> TRUE]

\* Image.resize((w, h), LANCZOS): a copy when the size is unchanged;
\* otherwise every target pixel is resampled from the source around the
\* corresponding position (taken here at the nearest source pixel).
Resize(im, w, h) ==
    IF w = im.w /\ h = im.h
    THEN im
    ELSE [im EXCEPT !.w = w, !.h = h,
                    !.px = [c \in Coords(w, h) |->
                               im.px[<<(c[1] * im.w) \div w, (c[2] * im.h) \div h>>]]]

\* Pillow's 8-bit blend, rounded division by 255:
\* in1 * (255 - mask) + in2 * mask, plus 128, then ((t >> 8) + t) >> 8.
Blend(mask, in1, in2) ==
    LET t == in1 * (255 - mask) + in2 * mask + 128
    IN  ((t \div 256) + t) \div 256

\* A variant of Paste that ignores the offset and pastes at the origin.
PasteAtOrigin(dst, src, ox, oy) ==
    [dst EXCEPT !.px =
        [c \in Coords(dst.w, dst.h) |->
            IF c[1] < src.w /\ c[2] < src.h
            THEN LET s == src.px[c]
                     d == dst.px[c]
                 IN  <<Blend(s[4], d[1], s[1]), Blend(s[4], d[2], s[2]),
                       Blend(s[4], d[3], s[3]), Blend(s[4], d[4], s[4])>>
            ELSE dst.px[c]]]

\* dst.paste(src, (ox, oy), src): inside the box of src's size at (ox, oy)
\* every channel, alpha included, is blended with src's alpha as the mask;
\* outside the box dst is left as it is.
Paste(dst, src, ox, oy) ==
    [dst EXCEPT !.px =
        [c \in Coords(dst.w, dst.h) |->
            IF /\ ox <= c[1] /\ c[1] < ox + src.w
               /\ oy <= c[2] /\ c[2] < oy + src.h
            THEN LET s == src.px[<<c[1] - ox, c[2] - oy>>]
                     d == dst.px[c]
                 IN  <<Blend(s[4], d[1], s[1]), Blend(s[4], d[2], s[2]),
                       Blend(s[4], d[3], s[3]), Blend(s[4], d[4], s[4])>>
            ELSE dst.px[c]]]

\* The PNG file new_img.save writes.
Png(im) == File("png", im.mode, im.w, im.h, im.px)

(* ------------------------------ one run ------------------------------- *)

Environments ==
    [stdout_ok : BOOLEAN, save_fault : {"none", "open", "write"}]

Init ==
    /\ pc = "open"
    /\ fs \in { [p \in Paths |-> IF p = input_file THEN i ELSE o] :
                  i \in InputFiles, o \in {Absent, Old} }
    /\ fs0 = fs
    /\ env \in Environments
    /\ padding_percent \in Percents
    /\ img = NoImage /\ new_img = NoImage /\ img_resized = NoImage
    /\ old_width = 0 /\ old_height = 0
    /\ padding_x = 0 /\ padding_y = 0
    /\ new_width = 0 /\ new_height = 0
    /\ content_width = 0 /\ content_height = 0
    /\ exc = NoExc
    /\ stdout = <<>> /\ stderr = <<>>
    /\ status = 0
    /\ io_log = <<>>
    /\ runs = 0 /\ first_pad = <<0, 0>>

\* An exception raised at a statement of add_padding leaves the function
\* and reaches the except clause of __main__.
Raise(at, msg) ==
    /\ exc' = [at |-> at, msg |-> msg]
    /\ pc' = "except"

\* line 17, img = Image.open(input_path)
OpenImage ==
    /\ pc = "open"
    /\ fs[input_file].kind \in {"png", "truncated"}
    /\ img' = Opened(fs[input_file])
    /\ io_log' = Append(io_log, <<"read", input_file>>)
    /\ pc' = "convert"
    /\ UNCHANGED <<fs, fs0, env, padding_percent, old_width, old_height,
                   padding_x, padding_y, new_width, new_height, new_img,
                   content_width, content_height, img_resized, exc, stdout,
                   stderr, status, runs, first_pad>>

\* line 17 raising: no file at the path, or not an image
OpenImageRaises ==
    /\ pc = "open"
    /\ fs[input_file].kind \in {"missing", "corrupt"}
    /\ Raise("open", IF fs[input_file].kind = "missing"
                     THEN "No such file or directory"
                     ELSE "cannot identify image file")
    /\ UNCHANGED <<fs, fs0, env, padding_percent, locals, stdout, stderr,
                   status, io_log, runs, first_pad>>

\* lines 20-21, if img.mode != 'RGBA': img = img.convert('RGBA')
ConvertImage ==
    /\ pc = "convert"
    /\ \/ /\ img.mode = "RGBA"
          /\ img' = img
       \/ /\ img.mode # "RGBA"
          /\ fs[input_file].kind = "png"
          /\ img' = ConvertRGBA(Loaded(img, fs[input_file]))
    /\ pc' = "size"
    /\ UNCHANGED <<fs, fs0, env, padding_percent, old_width, old_height,
                   padding_x, padding_y, new_width, new_height, new_img,
                   content_width, content_height, img_resized, exc, stdout,
                   stderr, status, io_log, runs, first_pad>>

\* line 21 raising: convert loads the pixel data, which does not decode
ConvertImageRaises ==
    /\ pc = "convert"
    /\ img.mode # "RGBA"
    /\ fs[input_file].kind = "truncated"
    /\ Raise("convert", "image file is truncated")
    /\ UNCHANGED <<fs, fs0, env, padding_percent, locals, stdout, stderr,
                   status, io_log, runs, first_pad>>

\* lines 24-31: the size, the padding and the new size
CalcPadding ==
    /\ pc = "size"
    /\ old_width' = img.w
    /\ old_height' = img.h
    /\ padding_x' = Padding(img.w, padding_percent)
    /\ padding_y' = Padding(img.h, padding_percent)
    /\ new_width' = NewDim(img.w, Padding(img.w, padding_percent))
    /\ new_height' = NewDim(img.h, Padding(img.h, padding_percent))
    /\ pc' = "new"
    /\ UNCHANGED <<fs, fs0, env, padding_percent, img, new_img,
                   content_width, content_height, img_resized, exc, stdout,
                   stderr, status, io_log, runs, first_pad>>

\* line 34, new_img = Image.new('RGBA', (new_width, new_height), (0, 0, 0, 0))
CreateCanvas ==
    /\ pc = "new"
    /\ new_img' = NewImage(new_width, new_height, <<0, 0, 0, 0>>)
    /\ pc' = "content"
    /\ UNCHANGED <<fs, fs0, env, padding_percent, img, old_width, old_height,
                   padding_x, padding_y, new_width, new_height,
                   content_width, content_height, img_resized, exc, stdout,
                   stderr, status, io_log, runs, first_pad>>

\* lines 37-38
CalcContent ==
    /\ pc = "content"
    /\ content_width' = ContentDim(new_width, padding_x)
    /\ content_height' = ContentDim(new_height, padding_y)
    /\ pc' = "resize"
    /\ UNCHANGED <<fs, fs0, env, padding_percent, img, old_width, old_height,
                   padding_x, padding_y, new_width, new_height, new_img,
                   img_resized, exc, stdout, stderr, status, io_log, runs,
                   first_pad>>

\* line 40, img_resized = img.resize((content_width, content_height), LANCZOS);
\* an image not loaded yet is loaded here.
ResizeImage ==
    /\ pc = "resize"
    /\ img.loaded \/ fs[input_file].kind = "png"
    /\ img_resized' = Resize(IF img.loaded THEN img
                             ELSE Loaded(img, fs[input_file]),
                             content_width, content_height)
    /\ pc' = "paste"
    /\ UNCHANGED <<fs, fs0, env, padding_percent, img, old_width, old_height,
                   padding_x, padding_y, new_width, new_height, new_img,
                   content_width, content_height, exc, stdout, stderr,
                   status, io_log, runs, first_pad>>

\* line 40 raising: the pixel data does not decode
ResizeImageRaises ==
    /\ pc = "resize"
    /\ ~img.loaded
    /\ fs[input_file].kind = "truncated"
    /\ Raise("resize", "image file is truncated")
    /\ UNCHANGED <<fs, fs0, env, padding_percent, locals, stdout, stderr,
                   status, io_log, runs, first_pad>>

\* line 43, new_img.paste(img_resized, (padding_x, padding_y), img_resized)
PasteImage ==
    /\ pc = "paste"
    /\ new_img' = Paste(new_img, img_resized, padding_x, padding_y)
    /\ pc' = "save"
    /\ UNCHANGED <<fs, fs0, env, padding_percent, img, old_width, old_height,
                   padding_x, padding_y, new_width, new_height,
                   content_width, content_height, img_resized, exc, stdout,
                   stderr, status, io_log, runs, first_pad>>

\* A variant of SaveImage with the two paths exchanged.
SaveImageToInput ==
    /\ pc = "save"
    /\ env.save_fault = "none"
    /\ fs' = [fs EXCEPT ![input_file] = Png(new_img)]
    /\ io_log' = Append(io_log, <<"write", input_file>>)
    /\ pc' = "report"
    /\ UNCHANGED <<fs0, env, padding_percent, locals, exc, stdout, stderr,
                   status, runs, first_pad>>

\* line 46, new_img.save(output_path, 'PNG')
SaveImage ==
    /\ pc = "save"
    /\ env.save_fault = "none"
    /\ fs' = [fs EXCEPT ![output_file] = Png(new_img)]
    /\ io_log' = Append(io_log, <<"write", output_file>>)
    /\ pc' = "report"
    /\ UNCHANGED <<fs0, env, padding_percent, locals, exc, stdout, stderr,
                   status, runs, first_pad>>

\* line 46 raising before the file is opened for writing (no directory,
\* no permission): the path is left as it was.
SaveImageOpenRaises ==
    /\ pc = "save"
    /\ env.save_fault = "open"
    /\ Raise("save", "Permission denied")
    /\ UNCHANGED <<fs, fs0, env, padding_percent, locals, stdout, stderr,
                   status, io_log, runs, first_pad>>

\* line 46 raising while writing (storage exhausted): the file was opened
\* and truncated; what is left is a partial file, or no file when save
\* created it and removes it again.
SaveImageWriteRaises ==
    /\ pc = "save"
    /\ env.save_fault = "write"
    /\ \E left \in {Partial} \cup (IF fs[output_file] = Absent THEN {Absent} ELSE {}) :
          fs' = [fs EXCEPT ![output_file] = left]
    /\ io_log' = Append(io_log, <<"write", output_file>>)
    /\ Raise("save", "No space left on device")
    /\ UNCHANGED <<fs0, env, padding_percent, locals, stdout, stderr,
                   status, runs, first_pad>>

\* lines 47-50, then add_padding returns and the script ends: status 0
Report ==
    /\ pc = "report"
    /\ env.stdout_ok
    /\ stdout' = stdout \o << <<"Created padded icon", output_file>>,
                              <<"Original size", old_width, old_height>>,
                              <<"New size", new_width, new_height>>,
                              <<"Padding", padding_percent, padding_x, padding_y>> >>
    /\ status' = 0
    /\ pc' = "exit"
    /\ UNCHANGED <<fs, fs0, env, padding_percent, locals, exc, stderr,
                   io_log, runs, first_pad>>

\* line 47 raising: the line starts with U+2713, which a standard output
\* whose encoding has no such character (ascii, cp1252) cannot encode.
ReportRaises ==
    /\ pc = "report"
    /\ ~env.stdout_ok
    /\ Raise("report", "codec can't encode character")
    /\ UNCHANGED <<fs, fs0, env, padding_percent, locals, stdout, stderr,
                   status, io_log, runs, first_pad>>

\* A variant of HandleException that also removes the output file.
HandleExceptionCleansUp ==
    /\ pc = "except"
    /\ stdout' = Append(stdout, <<"Error", exc.msg>>)
    /\ fs' = [fs EXCEPT ![output_file] = Absent]
    /\ status' = 1
    /\ pc' = "exit"
    /\ UNCHANGED <<fs0, env, padding_percent, locals, exc, stderr,
                   io_log, runs, first_pad>>

\* lines 58-60: except Exception as e: print(f"Error: {e}"); sys.exit(1)
HandleException ==
    /\ pc = "except"
    /\ stdout' = Append(stdout, <<"Error", exc.msg>>)
    /\ status' = 1
    /\ pc' = "exit"
    /\ UNCHANGED <<fs, fs0, env, padding_percent, locals, exc, stderr,
                   io_log, runs, first_pad>>

Next ==
    \/ OpenImage
    \/ OpenImageRaises
    \/ ConvertImage
    \/ ConvertImageRaises
    \/ CalcPadding
    \/ CreateCanvas
    \/ CalcContent
    \/ ResizeImage
    \/ ResizeImageRaises
    \/ PasteImage
    \/ SaveImage
    \/ SaveImageOpenRaises
    \/ SaveImageWriteRaises
    \/ Report
    \/ ReportRaises
    \/ HandleException

Spec == Init /\ [][Next]_vars

(* ------------------- the size arithmetic on its own ------------------- *)

\* Widths and heights: every small one, and those of common icons.
Dims == (1 .. MaxDim) \cup {100, 200, 512}
AllPercents == (0 .. MaxPercent) \cup Percents

SizeInit ==
    /\ pc = "size"
    /\ old_width \in Dims
    /\ old_height \in Dims
    /\ padding_percent \in AllPercents
    /\ padding_x = 0 /\ padding_y = 0
    /\ new_width = 0 /\ new_height = 0
    /\ content_width = 0 /\ content_height = 0
    /\ runs = 0 /\ first_pad = <<0, 0>>
    /\ fs = [p \in Paths |-> Absent]
    /\ fs0 = fs
    /\ env = [stdout_ok |-> TRUE, save_fault |-> "none"]
    /\ img = NoImage /\ new_img = NoImage /\ img_resized = NoImage
    /\ exc = NoExc
    /\ stdout = <<>> /\ stderr = <<>>
    /\ status = 0
    /\ io_log = <<>>

\* lines 27-38 on an image of size old_width x old_height
SizeApply ==
    /\ runs = 0
    /\ padding_x' = Padding(old_width, padding_percent)
    /\ padding_y' = Padding(old_height, padding_percent)
    /\ new_width' = NewDim(old_width, Padding(old_width, padding_percent))
    /\ new_height' = NewDim(old_height, Padding(old_height, padding_percent))
    /\ content_width' =
          ContentDim(NewDim(old_width, Padding(old_width, padding_percent)),
                     Padding(old_width, padding_percent))
    /\ content_height' =
          ContentDim(NewDim(old_height, Padding(old_height, padding_percent)),
                     Padding(old_height, padding_percent))
    /\ runs' = 1
    /\ UNCHANGED <<pc, fs, fs0, env, padding_percent, img, old_width,
                   old_height, new_img, img_resized, exc, stdout, stderr,
                   status, io_log, first_pad>>

\* lines 24-38 again, on the image the first application produced
SizeReapply ==
    /\ runs = 1
    /\ first_pad' = <<padding_x, padding_y>>
    /\ old_width' = new_width
    /\ old_height' = new_height
    /\ padding_x' = Padding(new_width, padding_percent)
    /\ padding_y' = Padding(new_height, padding_percent)
    /\ new_width' = NewDim(new_width, Padding(new_width, padding_percent))
    /\ new_height' = NewDim(new_height, Padding(new_height, padding_percent))
    /\ content_width' =
          ContentDim(NewDim(new_width, Padding(new_width, padding_percent)),
                     Padding(new_width, padding_percent))
    /\ content_height' =
          ContentDim(NewDim(new_height, Padding(new_height, padding_percent)),
                     Padding(new_height, padding_percent))
    /\ runs' = 2
    /\ UNCHANGED <<pc, fs, fs0, env, padding_percent, img, new_img,
                   img_resized, exc, stdout, stderr, status, io_log>>

SizeNext ==
    \/ SizeApply
    \/ SizeReapply

SizeSpec == SizeInit /\ [][SizeNext]_vars

(* ----------------------------- properties ----------------------------- *)

\* k is the floor of dim * percent / 100
IsFloorPercent(k, dim, percent) ==
    /\ 100 * k <= dim * percent
    /\ dim * percent < 100 * (k + 1)

\* The run has written an image to the output path.
OutputWritten ==
    /\ fs[output_file].kind = "png"
    /\ \E i \in 1 .. Len(io_log) : io_log[i] = <<"write", output_file>>

\* The exception in flight, or handled, came from decoding the input.
DecodeFailed == exc.at \in {"open", "convert", "resize"}

WriteFailed == exc.at = "save"

\* The content size of lines 37-38 has been computed.
ContentComputed ==
    \/ pc \in {"resize", "paste", "save", "report"}
    \/ exc.at \in {"resize", "save", "report"}
    \/ pc = "exit" /\ exc = NoExc

\* The paste of line 43 has been done.
Pasted ==
    \/ pc \in {"save", "report"}
    \/ exc.at \in {"save", "report"}
    \/ pc = "exit" /\ exc = NoExc

\* The pixel of the decoded RGBA image of file f at c.
DecodedPixel(f, c) ==
    IF f.mode = "RGBA" THEN f.px[c]
    ELSE <<f.px[c][1], f.px[c][2], f.px[c][3], 255>>

\* Same alpha, and same colour where anything is visible.
AlphaAwareEqual(p, q) ==
    /\ p[4] = q[4]
    /\ p[4] > 0 => (p[1] = q[1] /\ p[2] = q[2] /\ p[3] = q[3])

\* c lies outside the content rectangle at (padding_x, padding_y).
InBorder(c) ==
    \/ c[1] < padding_x
    \/ c[1] >= padding_x + content_width
    \/ c[2] < padding_y
    \/ c[2] >= padding_y + content_height

ErrorLine == <<"Error", exc.msg>>

\* C1: the image written to the output path has size
\* (W + 2*floor(W*p/100), H + 2*floor(H*p/100)) for the input's size W x H,
\* each axis padded from its own dimension; 100x200 at 15 gives 130x260,
\* 512x512 at 20 gives 716x716, 1x1 at 50 stays 1x1.
C1_OutputSize ==
    /\ OutputWritten =>
          LET W == fs0[input_file].w
              H == fs0[input_file].h
              out == fs[output_file]
          IN  /\ out.w >= W /\ (out.w - W) % 2 = 0
              /\ IsFloorPercent((out.w - W) \div 2, W, padding_percent)
              /\ out.h >= H /\ (out.h - H) % 2 = 0
              /\ IsFloorPercent((out.h - H) \div 2, H, padding_percent)
    /\ NewDim(100, Padding(100, 15)) = 130
    /\ NewDim(200, Padding(200, 15)) = 260
    /\ NewDim(512, Padding(512, 20)) = 716
    /\ NewDim(1, Padding(1, 50)) = 1

C1_Witness ==
    /\ OutputWritten
    /\ padding_percent = 50
    /\ fs0[input_file].w = 5 /\ fs0[input_file].h = 2
    /\ fs[output_file].w = 9 /\ fs[output_file].h = 4

\* C2: when the input does not decode, the file at the output path is the
\* one that was there when the run started, and nothing was written.
C2_DecodeFailureLeavesOutput ==
    DecodeFailed =>
        /\ fs[output_file] = fs0[output_file]
        /\ \A i \in 1 .. Len(io_log) : io_log[i][1] # "write"

C2_Witness ==
    /\ pc = "exit"
    /\ exc.at = "open"
    /\ fs0[output_file] = Old
    /\ fs[output_file] = Old

\* C3: after a decode or write failure the run has printed exactly one
\* line, Error: <message>, on standard error and nothing on standard output.
C3_ErrorLineOnStderr ==
    (pc = "exit" /\ (DecodeFailed \/ WriteFailed)) =>
        /\ stderr = <<ErrorLine>>
        /\ stdout = <<>>

\* C4: the run ends with status 0 exactly when decode, transform and write
\* all succeeded, and with status 1 when one of them raised.
C4_ExitStatus ==
    pc = "exit" =>
        /\ status = 0 <=> OutputWritten
        /\ (DecodeFailed \/ WriteFailed) => status = 1
        /\ status \in {0, 1}

\* C5: the canvas starts fully transparent, and in the pasted canvas and in
\* the written output every pixel outside the content rectangle at
\* (padding_x, padding_y) has alpha 0, with borders of padding_x left and
\* right and padding_y above and below.
C5_TransparentBorder ==
    /\ pc \in {"content", "resize", "paste"} =>
          \A c \in Coords(new_img.w, new_img.h) : new_img.px[c][4] = 0
    /\ Pasted =>
          /\ new_img.w = padding_x + content_width + padding_x
          /\ new_img.h = padding_y + content_height + padding_y
          /\ \A c \in Coords(new_img.w, new_img.h) :
                InBorder(c) => new_img.px[c][4] = 0
    /\ OutputWritten =>
          /\ fs[output_file].w = new_img.w /\ fs[output_file].h = new_img.h
          /\ \A c \in Coords(fs[output_file].w, fs[output_file].h) :
                InBorder(c) => fs[output_file].px[c][4] = 0

C5_Witness ==
    /\ OutputWritten
    /\ padding_x > 0 /\ padding_y > 0
    /\ \E c \in Coords(fs[output_file].w, fs[output_file].h) :
          ~InBorder(c) /\ fs[output_file].px[c][4] = 255

\* C8: with padding_percent = 0 the written output has the input's size and
\* every pixel is alpha-aware equal to the decoded input's pixel there.
C8_ZeroPaddingIdentity ==
    (OutputWritten /\ padding_percent = 0) =>
        /\ padding_x = 0 /\ padding_y = 0
        /\ fs[output_file].w = fs0[input_file].w
        /\ fs[output_file].h = fs0[input_file].h
        /\ \A c \in Coords(fs0[input_file].w, fs0[input_file].h) :
              AlphaAwareEqual(fs[output_file].px[c],
                              DecodedPixel(fs0[input_file], c))

\* C9: the input file is never changed; at most one write happens, it is
\* to the output path, and it comes after the image was decoded, resized
\* and pasted.
C9_InputUntouchedOneWrite ==
    /\ fs[input_file] = fs0[input_file]
    /\ Cardinality({i \in 1 .. Len(io_log) : io_log[i][1] = "write"}) <= 1
    /\ \A i \in 1 .. Len(io_log) :
          io_log[i][1] = "write" =>
              /\ io_log[i][2] = output_file
              /\ Pasted
              /\ img_resized.loaded
              /\ ~DecodeFailed

C9_Witness ==
    /\ pc = "exit"
    /\ fs[input_file].kind = "png"
    /\ fs0[output_file] = Old
    /\ OutputWritten
    /\ io_log = << <<"read", input_file>>, <<"write", output_file>> >>

\* C10: the content size equals the original size exactly, and the resized
\* image has the decoded image's dimensions.
C10_ContentEqualsOriginal ==
    /\ ContentComputed =>
          /\ content_width = old_width /\ content_height = old_height
          /\ old_width = fs0[input_file].w /\ old_height = fs0[input_file].h
    /\ img_resized # NoImage =>
          /\ img_resized.w = img.w /\ img_resized.h = img.h
          /\ img_resized.w = fs0[input_file].w
          /\ img_resized.h = fs0[input_file].h

C10_Witness ==
    /\ pc = "paste"
    /\ padding_x > 0 /\ padding_y > 0
    /\ content_width = 5 /\ old_width = 5
    /\ img_resized.w = 5

\* C6: the padding on each side is padding_percent % of the output
\* dimension, within a pixel, and the content the remaining
\* (100 - 2 * padding_percent) %, within two pixels, on both axes.
C6_PercentOfOutput ==
    runs = 1 =>
        /\ 100 * padding_x - padding_percent * new_width \in -100 .. 100
        /\ 100 * padding_y - padding_percent * new_height \in -100 .. 100
        /\ 100 * content_width - (100 - 2 * padding_percent) * new_width
              \in -200 .. 200
        /\ 100 * content_height - (100 - 2 * padding_percent) * new_height
              \in -200 .. 200

\* C7 as stated: for every padding_percent > 0 the second application
\* changes the image, and the border per side after it is double the
\* border per side after the first, on each axis.
C7_SecondRunDoubles ==
    (runs = 2 /\ padding_percent > 0) =>
        /\ new_width # old_width \/ new_height # old_height
        /\ first_pad[1] + padding_x = 2 * first_pad[1]
        /\ first_pad[2] + padding_y = 2 * first_pad[2]

\* C7, amended: the second application pads the once-padded size, so on
\* each axis the border per side after it is at least double the border
\* after the first, and it changes that dimension exactly when the first
\* application did.
C7_SecondRunAtLeastDoubles ==
    (runs = 2 /\ padding_percent > 0) =>
        /\ IsFloorPercent(padding_x, old_width, padding_percent)
        /\ IsFloorPercent(padding_y, old_height, padding_percent)
        /\ first_pad[1] + padding_x >= 2 * first_pad[1]
        /\ first_pad[2] + padding_y >= 2 * first_pad[2]
        /\ new_width # old_width <=> first_pad[1] > 0
        /\ new_height # old_height <=> first_pad[2] > 0

C7_Witness ==
    /\ runs = 2
    /\ padding_percent = 20
    /\ first_pad = <<20, 40>>
    /\ old_width = 140 /\ old_height = 280
    /\ padding_x = 28 /\ padding_y = 56

====
